---- MODULE Spec2Model ----
(***************************************************************************)
(* State-machine model of the number guessing game engine                  *)
(* (src/mygameflask.py.py, class GameEngine and the Flask routes).         *)
(*                                                                         *)
(* Encodings                                                               *)
(*   - a Python dict is a function whose DOMAIN is the set of its keys;    *)
(*   - an optional value (None or x) is a sequence: <<>> is None and       *)
(*     <<x>> is x, so Python truthiness of None / dict is "non-empty";     *)
(*   - the clock time.time() is the variable now, counted in half seconds, *)
(*     so that int(elapsed) really truncates;                              *)
(*   - the float difficulty bonuses 1.0, 1.5, 2.0, 3.0 are kept in tenths  *)
(*     (10, 15, 20, 30); every product base * bonus is exact in binary     *)
(*     floating point, so int(base * bonus) is (base * tenths) \div 10;    *)
(*   - a JSON request value is a tagged record: [t |-> "int", v |-> n],    *)
(*     [t |-> "float", v |-> k] for the number k/2, [t |-> "str"] for a    *)
(*     text that is no numeral.                                            *)
(*   - session['created_at'] and session['session_id'] are written once    *)
(*     and never read by any operation; they are left out of the record;   *)
(*   - store is the durable store (the tables of AzureSQLPersistence, or   *)
(*     game_stats.json and achievements.json): the stats and achievements  *)
(*     last written to it;                                                 *)
(*   - persistence is TRUE when the engine was built with an               *)
(*     AzureSQLPersistence object (the relational backend) and FALSE when  *)
(*     it writes the JSON files itself (the file backend);                 *)
(*   - a store write that fails raises an exception inside the write; the  *)
(*     set of writes that fail during one call is an input of the call,    *)
(*     and a failed write leaves the store as it was;                      *)
(*   - an exception that leaves an engine operation becomes the HTTP 500   *)
(*     response of the route: resp.raised is TRUE;                         *)
(*   - inflight holds the make_guess calls that are under way when the     *)
(*     server handles requests in threads, keyed by request.               *)
(***************************************************************************)
EXTENDS Integers, Sequences, FiniteSets, TLC

VARIABLES sessions, stats, achievements, store, persistence, inflight, now, req, resp, given, wonBest, overwritten

vars == <<sessions, stats, achievements, store, persistence, inflight, now, req, resp, given, wonBest, overwritten>>

(***************************************************************************)
(* Bounds of the model (not program constants).                            *)
(***************************************************************************)
\* Valid guesses per round (score, tier and history specifications).
MaxAttempts == 2
\* Resolved rounds per player (score, tier and hint specifications).
MaxGames == 1
\* Rounds started per session.
MaxRounds == 2
\* Resolved rounds per player, rounds started per session (history specification).
MaxGamesHist == 3
MaxRoundsHist == 3
\* Valid guesses per round (hint specification).
MaxAttemptsHint == 8
\* Resolved rounds per player (store specification).
MaxGamesStore == 2
\* Resolved rounds per player before a guess is let in (threaded specification).
MaxGamesRace == 2
\* Resolved rounds per player (wins specification).
MaxGamesWins == 10
\* The largest limit asked of the leaderboard.
MaxLimit == 3
\* Valid guesses per round, rounds started per session (threaded
\* specification).
MaxAttemptsRace == 1
MaxRoundsRace == 1

(***************************************************************************)
(* Generic helpers.                                                        *)
(***************************************************************************)
None == <<>>

Some(x) == <<x>>

Max2(a, b) == IF a >= b THEN a ELSE b

Abs(n) == IF n < 0 THEN -n ELSE n

\* Mutant of SumSeq: only the first element is counted.
SumSeqFirstOnly(s) == IF s = <<>> THEN 0 ELSE Head(s)

RECURSIVE SumSeq(_)
SumSeq(s) == IF s = <<>> THEN 0 ELSE Head(s) + SumSeq(Tail(s))

SeqToSet(s) == {s[i] : i \in 1..Len(s)}

\* dict[key] = value
DictPut(d, k, v) == [x \in (DOMAIN d) \cup {k} |-> IF x = k THEN v ELSE d[x]]

\* del dict[key]
DictDel(d, k) == [x \in (DOMAIN d) \ {k} |-> d[x]]

\* dict.get(key, default)
DictGet(d, k, default) == IF k \in DOMAIN d THEN d[k] ELSE default

EmptyDict == [x \in {} |-> 0]

\* Seconds as clock ticks (half seconds).
Seconds(n) == 2 * n

\* int(x) of a non-negative float duration held in ticks.
IntSeconds(ticks) == ticks \div 2

(***************************************************************************)
(* Request values and Python's int().                                      *)
(***************************************************************************)
JInt(n) == [t |-> "int", v |-> n]

JFloat(halves) == [t |-> "float", v |-> halves]

JStr == [t |-> "str", v |-> 0]

\* The request carries no guess (payload.get("guess") is None).
JNull == [t |-> "null", v |-> 0]

\* int(x) raises for a text that is no numeral.
IntRaises(x) == x.t = "str"

\* int(x): the identity on an int, truncation toward zero on a float.
PyInt(x) ==
    IF x.t = "int" THEN x.v
    ELSE IF x.v >= 0 THEN x.v \div 2 ELSE -((-x.v) \div 2)

(***************************************************************************)
(* GameEngine: constants and pure helpers.                                 *)
(***************************************************************************)
power_ups == <<"skip_turn", "extra_hint", "double_score", "freeze_time">>

\* random.randint(a, b): any integer of a..b.
randint(a, b) == a..b

\* Mutant of resolve_difficulty: tier 5 takes any custom_max that is given,
\* positive or not.
resolve_difficulty_unchecked(choice, custom_max) ==
    CASE choice = "1" -> <<50, 10>>
      [] choice = "2" -> <<100, 15>>
      [] choice = "3" -> <<500, 20>>
      [] choice = "4" -> <<1000, 30>>
      [] choice = "5" -> <<IF custom_max # None THEN custom_max[1] ELSE 100, 10>>
      [] OTHER -> <<100, 10>>

\* _resolve_difficulty(choice, custom_max) -> <<max_number, difficulty_bonus>>,
\* the bonus in tenths. custom_max is None or an integer.
resolve_difficulty(choice, custom_max) ==
    LET custom == IF custom_max # None /\ custom_max[1] # 0 /\ custom_max[1] > 0
                  THEN custom_max[1] ELSE 100
    IN  CASE choice = "1" -> <<50, 10>>
          [] choice = "2" -> <<100, 15>>
          [] choice = "3" -> <<500, 20>>
          [] choice = "4" -> <<1000, 30>>
          [] choice = "5" -> <<custom, 10>>
          [] OTHER -> <<100, 10>>

\* Mutant of NewSession: the round scores and the round of the player's
\* previous session are carried over.
NewSessionCarriesOver(player_name, mode, difficulty, custom_max) ==
    LET d == resolve_difficulty(difficulty, custom_max)
        old == player_name \in DOMAIN sessions
    IN  [player |-> player_name,
         max_number |-> d[1],
         difficulty_bonus |-> d[2],
         rounds_total |-> IF mode = "2" THEN 3 ELSE 1,
         rounds_played |-> 0,
         round_scores |-> IF old THEN sessions[player_name].round_scores ELSE <<>>,
         active_round |-> IF old THEN sessions[player_name].active_round ELSE None,
         mode |-> mode,
         time_limit |-> IF mode = "3" THEN Some(60) ELSE None,
         powerups |-> <<>>]

\* The session dict built by start_game.
NewSession(player_name, mode, difficulty, custom_max) ==
    LET d == resolve_difficulty(difficulty, custom_max)
    IN  [player |-> player_name,
         max_number |-> d[1],
         difficulty_bonus |-> d[2],
         rounds_total |-> IF mode = "2" THEN 3 ELSE 1,
         rounds_played |-> 0,
         round_scores |-> <<>>,
         active_round |-> None,
         mode |-> mode,
         time_limit |-> IF mode = "3" THEN Some(60) ELSE None,
         powerups |-> <<>>]

\* Mutant of StartRoundOn: an offered double_score power-up is applied to the
\* round.
StartRoundOnApplies(session, secret, offer, t) ==
    LET round_num == session.rounds_played + 1
        round_state == [secret_number |-> secret,
                        attempts |-> 0,
                        start_time |-> t,
                        time_limit |-> session.time_limit,
                        closest_distance |-> session.max_number,
                        double_score |-> offer = Some("double_score"),
                        extra_hints |-> 1,
                        powerup_used |-> offer,
                        active |-> TRUE,
                        round_num |-> round_num,
                        offered_powerup |-> offer]
    IN  [session EXCEPT !.rounds_played = round_num,
                        !.active_round = Some(round_state)]

\* start_round applied to a session: the session with rounds_played incremented
\* and a fresh round_state. secret is the randint draw, offer the power-up
\* offered when random.random() < 0.2 (None otherwise), t the clock reading.
StartRoundOn(session, secret, offer, t) ==
    LET round_num == session.rounds_played + 1
        round_state == [secret_number |-> secret,
                        attempts |-> 0,
                        start_time |-> t,
                        time_limit |-> session.time_limit,
                        closest_distance |-> session.max_number,
                        double_score |-> FALSE,
                        extra_hints |-> 1,
                        powerup_used |-> None,
                        active |-> TRUE,
                        round_num |-> round_num,
                        offered_powerup |-> offer]
    IN  [session EXCEPT !.rounds_played = round_num,
                        !.active_round = Some(round_state)]

\* get_hint(secret_number, max_number, attempts): the list of unlocked hints.
get_hint(secret_number, max_number, attempts) ==
    LET parity == IF attempts >= 3
                  THEN <<IF secret_number % 2 = 0 THEN "The number is even"
                         ELSE "The number is odd">>
                  ELSE <<>>
        quarter == IF attempts >= 5
                   THEN <<IF secret_number <= max_number \div 4
                            THEN "The number is in the first quarter of the range"
                          ELSE IF secret_number <= max_number \div 2
                            THEN "The number is in the second quarter of the range"
                          ELSE IF secret_number <= (3 * max_number) \div 4
                            THEN "The number is in the third quarter of the range"
                          ELSE "The number is in the fourth quarter of the range">>
                   ELSE <<>>
        divis == IF attempts < 7 THEN <<>>
                 ELSE IF secret_number % 3 = 0 THEN <<"The number is divisible by 3">>
                 ELSE IF secret_number % 5 = 0 THEN <<"The number is divisible by 5">>
                 ELSE IF secret_number % 7 = 0 THEN <<"The number is divisible by 7">>
                 ELSE <<>>
    IN  parity \o quarter \o divis

\* _ensure_player_stats: the record of a player without stats.
ZeroStats == [games_played |-> 0, games_won |-> 0, total_attempts |-> 0,
              best_score |-> 0, total_score |-> 0]

\* Mutant of update_player_stats: the won flag is ignored, every resolved
\* round counts as a win.
update_player_stats_always_won(st, player_name, attempts, won, score) ==
    LET old == DictGet(st, player_name, ZeroStats)
    IN  DictPut(st, player_name,
                [old EXCEPT !.games_played = @ + 1,
                            !.total_attempts = @ + attempts,
                            !.total_score = @ + score,
                            !.games_won = @ + 1,
                            !.best_score = IF score > @ THEN score ELSE @])

\* Mutant of update_player_stats: a win overwrites best_score without
\* comparing.
update_player_stats_overwrite(st, player_name, attempts, won, score) ==
    LET old == DictGet(st, player_name, ZeroStats)
        counted == [old EXCEPT !.games_played = @ + 1,
                               !.total_attempts = @ + attempts,
                               !.total_score = @ + score]
    IN  DictPut(st, player_name,
                IF won THEN [counted EXCEPT !.games_won = @ + 1, !.best_score = score]
                ELSE counted)

\* Mutant of update_player_stats: a lost round is not counted as played.
update_player_stats_wins_only(st, player_name, attempts, won, score) ==
    LET old == DictGet(st, player_name, ZeroStats)
        counted == [old EXCEPT !.total_attempts = @ + attempts,
                               !.total_score = @ + score]
        new == IF won
               THEN [counted EXCEPT !.games_played = @ + 1,
                                    !.games_won = @ + 1,
                                    !.best_score = IF score > @ THEN score ELSE @]
               ELSE counted
    IN  DictPut(st, player_name, new)

\* update_player_stats(player_name, attempts, won, score) on the stats dict st.
\* Mutant of update_player_stats: the round is counted for every player that
\* has stats, not only for the one who played it.
update_player_stats_everyone(st, player_name, attempts, won, score) ==
    LET counted(old) == [old EXCEPT !.games_played = @ + 1,
                                    !.total_attempts = @ + attempts,
                                    !.total_score = @ + score]
        new(old) == IF won
                    THEN [counted(old) EXCEPT !.games_won = @ + 1,
                                              !.best_score = IF score > @ THEN score ELSE @]
                    ELSE counted(old)
    IN  [q \in DOMAIN st \cup {player_name} |-> new(DictGet(st, q, ZeroStats))]

update_player_stats(st, player_name, attempts, won, score) ==
    LET old == DictGet(st, player_name, ZeroStats)
        counted == [old EXCEPT !.games_played = @ + 1,
                               !.total_attempts = @ + attempts,
                               !.total_score = @ + score]
        new == IF won
               THEN [counted EXCEPT !.games_won = @ + 1,
                                    !.best_score = IF score > @ THEN score ELSE @]
               ELSE counted
    IN  DictPut(st, player_name, new)

\* The names of achievement_list, in rule order.
achievement_list == <<"First Blood", "Speed Demon", "Mind Reader", "Perfectionist",
                      "Champion", "Lightning Fast", "Show Off">>

\* Mutant of condition: "Win in under 5 attempts" is taken at its word
\* (attempts < 5).
condition_under_five(i, st, player_name, attempts, score, time_taken) ==
    CASE i = 1 -> player_name \in DOMAIN st /\ st[player_name].games_won = 1
      [] i = 2 -> time_taken < Seconds(10)
      [] i = 3 -> attempts = 1
      [] i = 4 -> score > 150
      [] i = 5 -> player_name \in DOMAIN st /\ st[player_name].games_won >= 10
      [] i = 6 -> attempts < 5
      [] i = 7 -> score > 200
      [] OTHER -> FALSE

\* The condition of the i-th rule; a condition that raises (no stats record for
\* the player) is caught and counts as false.
condition(i, st, player_name, attempts, score, time_taken) ==
    CASE i = 1 -> player_name \in DOMAIN st /\ st[player_name].games_won = 1
      [] i = 2 -> time_taken < Seconds(10)
      [] i = 3 -> attempts = 1
      [] i = 4 -> score > 150
      [] i = 5 -> player_name \in DOMAIN st /\ st[player_name].games_won >= 10
      [] i = 6 -> attempts <= 5
      [] i = 7 -> score > 200
      [] OTHER -> FALSE

\* Mutant of AchievementLoop: a rule that holds is unlocked again although the
\* player has it.
RECURSIVE AchievementLoopRepeats(_, _, _, _, _, _, _, _)
AchievementLoopRepeats(i, player_achievements, new_achievements, st, player_name, attempts, score, time_taken) ==
    IF i > Len(achievement_list) THEN <<player_achievements, new_achievements>>
    ELSE LET name == achievement_list[i]
             unlock == condition(i, st, player_name, attempts, score, time_taken)
         IN  AchievementLoopRepeats(i + 1,
                 IF unlock THEN Append(player_achievements, name)
                 ELSE player_achievements,
                 IF unlock THEN Append(new_achievements, name) ELSE new_achievements,
                 st, player_name, attempts, score, time_taken)

\* The loop of check_achievements from rule i on: <<player_achievements,
\* new_achievements>> after it.
RECURSIVE AchievementLoop(_, _, _, _, _, _, _, _)
AchievementLoop(i, player_achievements, new_achievements, st, player_name, attempts, score, time_taken) ==
    IF i > Len(achievement_list) THEN <<player_achievements, new_achievements>>
    ELSE LET name == achievement_list[i]
             unlock == /\ name \notin SeqToSet(player_achievements)
                       /\ condition(i, st, player_name, attempts, score, time_taken)
         IN  AchievementLoop(i + 1,
                 IF unlock THEN Append(player_achievements, name)
                 ELSE player_achievements,
                 IF unlock THEN Append(new_achievements, name) ELSE new_achievements,
                 st, player_name, attempts, score, time_taken)

\* Mutant of check_achievements: the player's list is overwritten by the
\* achievements unlocked in this call.
check_achievements_rebuild(ach, st, player_name, attempts, score, time_taken) ==
    LET r == AchievementLoop(1, DictGet(ach, player_name, <<>>), <<>>, st,
                             player_name, attempts, score, time_taken)
    IN  <<DictPut(ach, player_name, r[2]), r[2]>>

\* check_achievements(player_name, attempts, score, time_taken) on the
\* achievements dict ach: <<the dict after it, new_achievements>>.
check_achievements(ach, st, player_name, attempts, score, time_taken) ==
    LET r == AchievementLoop(1, DictGet(ach, player_name, <<>>), <<>>, st,
                             player_name, attempts, score, time_taken)
    IN  <<DictPut(ach, player_name, r[1]), r[2]>>

\* The store writes that can fail during a call.
Writes == {"save_stats", "upsert_player_stats", "replace_achievements", "save_achievements"}

\* persistence.save_stats(stats) / json.dump(stats) to game_stats.json: the
\* whole stats dict written to the store.
save_stats(st_store, st) == [st_store EXCEPT !.stats = st]

\* persistence.upsert_player_stats(player, stats.get(player, {})): one row.
upsert_player_stats(st_store, player, st) ==
    [st_store EXCEPT !.stats = DictPut(@, player, DictGet(st, player, ZeroStats))]

\* persistence.save_achievements(achievements) / json.dump(achievements) to
\* achievements.json: the whole achievements dict written to the store.
save_achievements(st_store, ach) == [st_store EXCEPT !.achievements = ach]

\* persistence.replace_achievements(player, achievements.get(player, [])).
replace_achievements(st_store, player, ach) ==
    [st_store EXCEPT !.achievements = DictPut(@, player, DictGet(ach, player, <<>>))]

\* The tail of update_player_stats: _save_stats() then
\* _persist_player_stats(player_name), with the writes of failing raising.
\* <<the store after it, whether an exception leaves the call>>: the relational
\* backend catches the exception of a write, the file backend has no handler.
StoreStats(st_store, st, player_name, failing) ==
    IF persistence
    THEN LET saved == IF "save_stats" \in failing THEN st_store
                      ELSE save_stats(st_store, st)
         IN  <<IF "upsert_player_stats" \in failing THEN saved
               ELSE upsert_player_stats(saved, player_name, st),
               FALSE>>
    ELSE IF "save_stats" \in failing THEN <<st_store, TRUE>>
         ELSE <<save_stats(st_store, st), FALSE>>

\* The writes of check_achievements: _persist_achievements(player_name) after
\* every unlock of the loop (the last one writes the final list), then
\* _save_achievements(). <<the store after it, whether an exception leaves the
\* call>>.
StoreAchievements(st_store, ach, player_name, new_achievements, failing) ==
    IF persistence
    THEN LET replaced == IF new_achievements = <<>> \/ "replace_achievements" \in failing
                         THEN st_store
                         ELSE replace_achievements(st_store, player_name, ach)
         IN  <<IF "save_achievements" \in failing THEN replaced
               ELSE save_achievements(replaced, ach),
               FALSE>>
    ELSE IF "save_achievements" \in failing THEN <<st_store, TRUE>>
         ELSE <<save_achievements(st_store, ach), FALSE>>

\* Mutant of total_score: the bonus is truncated to an integer before the
\* product (1.5 counts as 1).
total_score_int_bonus(attempts, elapsed_time, closest_distance, difficulty_bonus, powerup_used, double_score) ==
    LET base_score == Max2(0, 100 - attempts)
        time_bonus == IF elapsed_time < Seconds(50)
                      THEN Max2(0, 50 - IntSeconds(elapsed_time)) ELSE 0
        proximity_bonus == IF closest_distance < 20
                           THEN Max2(0, 20 - closest_distance) ELSE 0
        difficulty_score == base_score * (difficulty_bonus \div 10)
        power_up_bonus == IF powerup_used # None THEN 25 ELSE 0
        total == difficulty_score + time_bonus + proximity_bonus + power_up_bonus
    IN  IF double_score THEN total * 2 ELSE total

\* The score of a solved round (make_guess, the branch guess == secret_number).
\* elapsed_time is in clock ticks, difficulty_bonus in tenths.
total_score(attempts, elapsed_time, closest_distance, difficulty_bonus, powerup_used, double_score) ==
    LET base_score == Max2(0, 100 - attempts)
        time_bonus == IF elapsed_time < Seconds(50)
                      THEN Max2(0, 50 - IntSeconds(elapsed_time)) ELSE 0
        proximity_bonus == IF closest_distance < 20
                           THEN Max2(0, 20 - closest_distance) ELSE 0
        difficulty_score == (base_score * difficulty_bonus) \div 10
        power_up_bonus == IF powerup_used # None THEN 25 ELSE 0
        total == difficulty_score + time_bonus + proximity_bonus + power_up_bonus
    IN  IF double_score THEN total * 2 ELSE total

\* Mutant of hint_texts: a hint is given without consuming the budget.
hint_texts_free(rnd, max_number) ==
    LET hints == get_hint(rnd.secret_number, max_number, rnd.attempts)
    IN  IF rnd.attempts >= 3 /\ rnd.extra_hints > 0 /\ hints # <<>>
        THEN <<<<hints[1]>>, rnd.extra_hints>>
        ELSE <<<<>>, rnd.extra_hints>>

\* The hint list of a wrong guess (make_guess, the else branch): <<hint_texts,
\* extra_hints after it>>.
hint_texts(rnd, max_number) ==
    LET threshold == IF rnd.extra_hints > 1 THEN 2 ELSE 3
        hints == get_hint(rnd.secret_number, max_number, rnd.attempts)
    IN  IF rnd.attempts >= threshold /\ rnd.extra_hints > 0 /\ hints # <<>>
        THEN <<<<hints[1]>>, rnd.extra_hints - 1>>
        ELSE <<<<>>, rnd.extra_hints>>

(***************************************************************************)
(* Requests and responses. req is the last call made (operation and        *)
(* arguments); every operation returns a dict, and resp is the dict the    *)
(* last call returned, with the keys it does not carry at their defaults.  *)
(***************************************************************************)
NoReq == [op |-> "none", player |-> "", guess |-> JInt(0), mode |-> "",
          difficulty |-> "", custom_max |-> None, failing |-> {}, limit |-> 0]

NoResp == [op |-> "none", player |-> "", error |-> "", result |-> "",
           score |-> 0, attempts |-> 0, time |-> 0, hints |-> <<>>,
           new_achievements |-> <<>>, total_score |-> 0, round_scores |-> <<>>,
           revealed |-> 0, sound |-> "", raised |-> FALSE, board |-> <<>>]

ErrorResp(op, player_name, message) ==
    [NoResp EXCEPT !.op = op, !.player = player_name, !.error = message]

\* The response of a call that an exception leaves (HTTP 500).
RaisedResp(op, player_name) ==
    [NoResp EXCEPT !.op = op, !.player = player_name, !.raised = TRUE]

(***************************************************************************)
(* GameEngine operations.                                                  *)
(***************************************************************************)
\* GameEngine(persistence): the engine built over an empty store, with the
\* relational backend (TRUE) or the file backend (FALSE).
InitIn(backends) ==
    /\ sessions = EmptyDict
    /\ stats = EmptyDict
    /\ achievements = EmptyDict
    /\ store = [stats |-> EmptyDict, achievements |-> EmptyDict]
    /\ persistence \in backends
    /\ inflight = EmptyDict
    /\ now = 0
    /\ req = NoReq
    /\ resp = NoResp
    /\ given = EmptyDict
    /\ wonBest = EmptyDict
    /\ overwritten = None

\* The engine as the module builds it when no DB_* variable is set.
Init == InitIn({FALSE})

\* start_game(player_name, mode, difficulty, custom_max)
StartGame(player_name, mode, difficulty, custom_max) ==
    /\ sessions' = DictPut(sessions, player_name,
                           NewSession(player_name, mode, difficulty, custom_max))
    /\ resp' = [NoResp EXCEPT !.op = "start_game", !.player = player_name,
                              !.sound = "game_start"]
    /\ UNCHANGED <<stats, achievements, store, persistence, inflight, now>>

\* start_round(player_name); secret and offer are its random draws.
StartRound(player_name, secret, offer) ==
    IF player_name \notin DOMAIN sessions
    THEN /\ resp' = ErrorResp("start_round", player_name, "No active session")
         /\ UNCHANGED <<sessions, stats, achievements, store, persistence, inflight, now>>
    ELSE /\ sessions' = DictPut(sessions, player_name,
                                StartRoundOn(sessions[player_name], secret, offer, now))
         /\ resp' = [NoResp EXCEPT !.op = "start_round", !.player = player_name,
                                   !.sound = "round_start"]
         /\ UNCHANGED <<stats, achievements, store, persistence, inflight, now>>

\* start_route: start_game then start_round, the response is start_game's.
StartRoute(player_name, mode, difficulty, custom_max, secret, offer) ==
    /\ sessions' = DictPut(sessions, player_name,
                           StartRoundOn(NewSession(player_name, mode, difficulty, custom_max),
                                        secret, offer, now))
    /\ resp' = [NoResp EXCEPT !.op = "start_game", !.player = player_name,
                              !.sound = "game_start"]
    /\ UNCHANGED <<stats, achievements, store, persistence, inflight, now>>

\* Mutant of NoRound: a resolved round counts as no round.
NoRoundOrResolved(session) ==
    session.active_round = None \/ ~session.active_round[1].active

\* not session.get('active_round'): make_guess starts a round itself.
NoRound(session) == session.active_round = None

\* Mutant of RoundIsFinished: the round is never taken as finished.
RoundIsFinishedNever(rnd) == FALSE

\* not rnd['active']
RoundIsFinished(rnd) == ~rnd.active

\* The time check of make_guess: the round has a time limit and it is exceeded.
TimedOut(rnd, elapsed) ==
    /\ rnd.time_limit # None
    /\ rnd.time_limit[1] # 0
    /\ elapsed > Seconds(rnd.time_limit[1])

\* make_guess(player_name, guess); secret and offer are the random draws of the
\* start_round it calls when the session has no round, failing the store
\* writes that raise during the call.
MakeGuess(player_name, guess, secret, offer, failing) ==
    IF player_name \notin DOMAIN sessions
    THEN /\ resp' = ErrorResp("make_guess", player_name, "No active session for player")
         /\ UNCHANGED <<sessions, stats, achievements, store, persistence, inflight, now>>
    ELSE
    LET session == IF NoRound(sessions[player_name])
                   THEN StartRoundOn(sessions[player_name], secret, offer, now)
                   ELSE sessions[player_name]
        rnd == session.active_round[1]
        elapsed == now - rnd.start_time
        value == PyInt(guess)
    IN
    IF RoundIsFinished(rnd)
    THEN /\ resp' = ErrorResp("make_guess", player_name,
                              "Round already finished for this player")
         /\ sessions' = DictPut(sessions, player_name, session)
         /\ UNCHANGED <<stats, achievements, store, persistence, inflight, now>>
    ELSE IF TimedOut(rnd, elapsed)
    THEN LET st == update_player_stats(stats, player_name, rnd.attempts, FALSE, 0)
             first == StoreStats(store, st, player_name, failing)
             second == StoreStats(first[1], st, player_name, failing)
         IN  /\ sessions' = DictPut(sessions, player_name,
                    [session EXCEPT !.active_round = Some([rnd EXCEPT !.active = FALSE]),
                                    !.round_scores = Append(@, 0)])
             /\ stats' = st
             /\ store' = IF first[2] THEN first[1] ELSE second[1]
             /\ resp' = IF first[2] \/ second[2]
                        THEN RaisedResp("make_guess", player_name)
                        ELSE [NoResp EXCEPT !.op = "make_guess", !.player = player_name,
                                            !.result = "timeout",
                                            !.revealed = rnd.secret_number,
                                            !.sound = "elimination"]
             /\ UNCHANGED <<achievements, persistence, inflight, now>>
    ELSE IF IntRaises(guess)
    THEN /\ resp' = ErrorResp("make_guess", player_name, "Guess must be integer")
         /\ sessions' = DictPut(sessions, player_name, session)
         /\ UNCHANGED <<stats, achievements, store, persistence, inflight, now>>
    ELSE IF value < 1 \/ value > session.max_number
    THEN /\ resp' = ErrorResp("make_guess", player_name,
                              "Guess must be between 1 and max_number")
         /\ sessions' = DictPut(sessions, player_name, session)
         /\ UNCHANGED <<stats, achievements, store, persistence, inflight, now>>
    ELSE
    LET attempts == rnd.attempts + 1
        current_distance == Abs(value - rnd.secret_number)
        closest_distance == IF current_distance < rnd.closest_distance
                            THEN current_distance ELSE rnd.closest_distance
        counted == [rnd EXCEPT !.attempts = attempts,
                               !.closest_distance = closest_distance]
    IN
    IF value = rnd.secret_number
    THEN LET score == total_score(attempts, elapsed, closest_distance,
                                  session.difficulty_bonus, rnd.powerup_used,
                                  rnd.double_score)
             st == update_player_stats(stats, player_name, attempts, TRUE, score)
             stored == StoreStats(store, st, player_name, failing)
             ach == check_achievements(achievements, st, player_name, attempts,
                                       score, elapsed)
             kept == StoreAchievements(stored[1], ach[1], player_name, ach[2], failing)
         IN  /\ sessions' = DictPut(sessions, player_name,
                    [session EXCEPT
                        !.active_round = Some([counted EXCEPT !.active = FALSE]),
                        !.round_scores = Append(@, score)])
             /\ stats' = st
             /\ achievements' = IF stored[2] THEN achievements ELSE ach[1]
             /\ store' = IF stored[2] THEN stored[1] ELSE kept[1]
             /\ resp' = IF stored[2] \/ kept[2]
                        THEN RaisedResp("make_guess", player_name)
                        ELSE [NoResp EXCEPT !.op = "make_guess", !.player = player_name,
                                            !.result = "correct", !.score = score,
                                            !.attempts = attempts, !.time = elapsed,
                                            !.new_achievements = ach[2],
                                            !.sound = "victory"]
             /\ UNCHANGED <<persistence, inflight, now>>
    ELSE LET h == hint_texts(counted, session.max_number)
         IN  /\ sessions' = DictPut(sessions, player_name,
                    [session EXCEPT
                        !.active_round = Some([counted EXCEPT !.extra_hints = h[2]])])
             /\ resp' = [NoResp EXCEPT !.op = "make_guess", !.player = player_name,
                                       !.result = IF value < rnd.secret_number
                                                  THEN "too_low" ELSE "too_high",
                                       !.attempts = attempts, !.hints = h[1],
                                       !.sound = "wrong"]
             /\ UNCHANGED <<stats, achievements, store, persistence, inflight, now>>

\* guess_route: a request without a guess is answered without calling the
\* engine, any other goes to make_guess.
GuessRoute(player_name, guess, secret, offer, failing) ==
    IF guess = JNull
    THEN /\ resp' = ErrorResp("make_guess", player_name, "guess required")
         /\ UNCHANGED <<sessions, stats, achievements, store, persistence, inflight, now>>
    ELSE MakeGuess(player_name, guess, secret, offer, failing)

\* end_session(player_name)
EndSession(player_name) ==
    IF player_name \notin DOMAIN sessions
    THEN /\ resp' = ErrorResp("end_session", player_name, "No active session")
         /\ UNCHANGED <<sessions, stats, achievements, store, persistence, inflight, now>>
    ELSE LET final_scores == sessions[player_name].round_scores
         IN  /\ sessions' = DictDel(sessions, player_name)
             /\ resp' = [NoResp EXCEPT !.op = "end_session", !.player = player_name,
                                       !.total_score = SumSeq(final_scores),
                                       !.round_scores = final_scores,
                                       !.sound = "game_end"]
             /\ UNCHANGED <<stats, achievements, store, persistence, inflight, now>>

\* The orders of a sort by best_score, descending: the entries of a stats dict
\* in every order that is non-increasing in best_score (the order of equal
\* scores is the dict's or the table's, which the model does not keep).
SortedByBest(st) ==
    {order \in [1..Cardinality(DOMAIN st) -> DOMAIN st] :
        /\ \A i, j \in DOMAIN order : i # j => order[i] # order[j]
        /\ \A i \in DOMAIN order :
              i + 1 \in DOMAIN order
              => st[order[i]].best_score >= st[order[i + 1]].best_score}

\* sorted(...)[:limit] and cursor.fetchmany(limit), for limit >= 0.
Take(s, limit) == SubSeq(s, 1, IF limit < Len(s) THEN limit ELSE Len(s))

\* Mutant of Leaderboard: the sort is ascending (reverse=True is missing).
LeaderboardAscending(st, ach, order, limit) ==
    LET rows == [i \in 1..Len(order) |-> order[Len(order) + 1 - i]]
    IN  [i \in 1..Len(Take(rows, limit)) |->
            [player |-> rows[i],
             best_score |-> st[rows[i]].best_score,
             achievements |-> Len(DictGet(ach, rows[i], <<>>))]]

\* The list hall_of_fame builds from the stats and achievements it reads,
\* order being the sorted order of the players.
Leaderboard(st, ach, order, limit) ==
    [i \in 1..Len(Take(order, limit)) |->
        [player |-> order[i],
         best_score |-> st[order[i]].best_score,
         achievements |-> Len(DictGet(ach, order[i], <<>>))]]

\* hall_of_fame(limit): from the store (get_top_players) with the relational
\* backend, from memory with the file backend. Reads of the store succeed.
HallOfFame(limit, order) ==
    /\ order \in SortedByBest(IF persistence THEN store.stats ELSE stats)
    /\ resp' = [NoResp EXCEPT
                   !.op = "hall_of_fame",
                   !.board = IF persistence
                             THEN Leaderboard(store.stats, store.achievements, order, limit)
                             ELSE Leaderboard(stats, achievements, order, limit)]
    /\ UNCHANGED <<sessions, stats, achievements, store, persistence, inflight, now>>

(***************************************************************************)
(* make_guess under a threaded server (app.run handles every request in    *)
(* its own thread): a call is a sequence of steps on the shared session    *)
(* and round dicts, and the steps of two calls interleave. A call in       *)
(* progress is inflight[id] = [player, value, pc, score, time]: its        *)
(* player, its validated guess, the step it takes next, and its locals     *)
(* total_score and elapsed_time once computed.                             *)
(***************************************************************************)
\* The checks of make_guess (lines 421-449) let the guess through to the
\* counting of the attempt.
PassesChecks(player_name, guess) ==
    /\ player_name \in DOMAIN sessions
    /\ NoRound(sessions[player_name])
       \/ LET rnd == sessions[player_name].active_round[1]
          IN  ~RoundIsFinished(rnd) /\ ~TimedOut(rnd, now - rnd.start_time)
    /\ ~IntRaises(guess)
    /\ PyInt(guess) >= 1
    /\ PyInt(guess) <= sessions[player_name].max_number

\* Mutant of ResolveRound: a round that is no longer active is left alone.
ResolveRoundOnce(session, score) ==
    IF ~session.active_round[1].active THEN session
    ELSE [session EXCEPT !.active_round = Some([@[1] EXCEPT !.active = FALSE]),
                         !.round_scores = Append(@, score)]

\* rnd['active'] = False ... session['round_scores'].append(total_score)
ResolveRound(session, score) ==
    [session EXCEPT !.active_round = Some([@[1] EXCEPT !.active = FALSE]),
                    !.round_scores = Append(@, score)]

\* Lines 421-449: the call returns early exactly as make_guess does, or it
\* has passed every check (starting a round when the session has none).
GuessEnter(id, player_name, guess, secret, offer) ==
    /\ id \notin DOMAIN inflight
    /\ IF ~PassesChecks(player_name, guess)
       THEN MakeGuess(player_name, guess, secret, offer, {})
       ELSE /\ sessions' = IF NoRound(sessions[player_name])
                           THEN DictPut(sessions, player_name,
                                    StartRoundOn(sessions[player_name], secret, offer, now))
                           ELSE sessions
            /\ inflight' = DictPut(inflight, id,
                               [player |-> player_name, value |-> PyInt(guess),
                                pc |-> "count", score |-> 0, time |-> 0])
            /\ UNCHANGED <<stats, achievements, store, persistence, now, resp>>

\* Lines 451-457 and 484-498: the attempt is counted on the round as it is
\* now; a wrong guess is answered, a right one goes on to resolve the round.
GuessCount(id) ==
    /\ id \in DOMAIN inflight
    /\ inflight[id].pc = "count"
    /\ LET player_name == inflight[id].player
           value == inflight[id].value
           session == sessions[player_name]
           rnd == session.active_round[1]
           attempts == rnd.attempts + 1
           current_distance == Abs(value - rnd.secret_number)
           closest_distance == IF current_distance < rnd.closest_distance
                               THEN current_distance ELSE rnd.closest_distance
           counted == [rnd EXCEPT !.attempts = attempts,
                                  !.closest_distance = closest_distance]
           h == hint_texts(counted, session.max_number)
       IN  IF value = rnd.secret_number
           THEN /\ sessions' = DictPut(sessions, player_name,
                                   [session EXCEPT !.active_round = Some(counted)])
                /\ inflight' = DictPut(inflight, id, [inflight[id] EXCEPT !.pc = "solve"])
                /\ UNCHANGED resp
           ELSE /\ sessions' = DictPut(sessions, player_name,
                       [session EXCEPT
                           !.active_round = Some([counted EXCEPT !.extra_hints = h[2]])])
                /\ inflight' = DictDel(inflight, id)
                /\ resp' = [NoResp EXCEPT !.op = "make_guess", !.player = player_name,
                                          !.result = IF value < rnd.secret_number
                                                     THEN "too_low" ELSE "too_high",
                                          !.attempts = attempts, !.hints = h[1],
                                          !.sound = "wrong"]
    /\ UNCHANGED <<stats, achievements, store, persistence, now>>

\* Lines 458-469: the round is marked inactive and the score, computed from
\* the round as it is now, is appended to round_scores.
GuessSolve(id) ==
    /\ id \in DOMAIN inflight
    /\ inflight[id].pc = "solve"
    /\ LET player_name == inflight[id].player
           session == sessions[player_name]
           rnd == session.active_round[1]
           elapsed_time == now - rnd.start_time
           score == total_score(rnd.attempts, elapsed_time, rnd.closest_distance,
                                session.difficulty_bonus, rnd.powerup_used,
                                rnd.double_score)
       IN  /\ sessions' = DictPut(sessions, player_name, ResolveRound(session, score))
           /\ inflight' = DictPut(inflight, id,
                              [inflight[id] EXCEPT !.pc = "record", !.score = score,
                                                   !.time = elapsed_time])
    /\ UNCHANGED <<stats, achievements, store, persistence, now, resp>>

\* Line 471: update_player_stats(player_name, rnd['attempts'], True, total_score)
GuessRecord(id) ==
    /\ id \in DOMAIN inflight
    /\ inflight[id].pc = "record"
    /\ LET player_name == inflight[id].player
           rnd == sessions[player_name].active_round[1]
           st == update_player_stats(stats, player_name, rnd.attempts, TRUE,
                                     inflight[id].score)
       IN  /\ stats' = st
           /\ store' = StoreStats(store, st, player_name, {})[1]
    /\ inflight' = DictPut(inflight, id, [inflight[id] EXCEPT !.pc = "achieve"])
    /\ UNCHANGED <<sessions, achievements, persistence, now, resp>>

\* Lines 472-482: check_achievements and the "correct" response.
GuessFinish(id) ==
    /\ id \in DOMAIN inflight
    /\ inflight[id].pc = "achieve"
    /\ LET player_name == inflight[id].player
           rnd == sessions[player_name].active_round[1]
           ach == check_achievements(achievements, stats, player_name, rnd.attempts,
                                     inflight[id].score, inflight[id].time)
       IN  /\ achievements' = ach[1]
           /\ store' = StoreAchievements(store, ach[1], player_name, ach[2], {})[1]
           /\ resp' = [NoResp EXCEPT !.op = "make_guess", !.player = player_name,
                                     !.result = "correct", !.score = inflight[id].score,
                                     !.attempts = rnd.attempts,
                                     !.time = inflight[id].time,
                                     !.new_achievements = ach[2],
                                     !.sound = "victory"]
    /\ inflight' = DictDel(inflight, id)
    /\ UNCHANGED <<sessions, stats, persistence, now>>

\* The clock: time.time() moves on to the reading t between two operations.
Tick(t) ==
    /\ t > now
    /\ now' = t
    /\ UNCHANGED <<sessions, stats, achievements, store, persistence, inflight, req, resp>>

(***************************************************************************)
(* History variables (not program state): given[p] is the list of hints    *)
(* the responses of p's current round have carried, wonBest[p] the largest *)
(* score a "correct" response has reported to p; overwritten tells, when   *)
(* the last call was a start_game that replaced a session, whether that    *)
(* session had round scores and a round (None otherwise).                  *)
(***************************************************************************)
Observe(player_name) ==
    LET started == \/ resp'.op = "start_round" /\ resp'.error = ""
                   \/ /\ resp'.op = "make_guess"
                      /\ player_name \in DOMAIN sessions
                      /\ sessions[player_name].active_round = None
        dropped == \/ resp'.op = "start_game"
                   \/ resp'.op = "end_session" /\ resp'.error = ""
        before == IF started THEN <<>> ELSE DictGet(given, player_name, <<>>)
    IN  /\ given' = IF dropped THEN DictDel(given, player_name)
                    ELSE IF player_name \in DOMAIN sessions'
                              /\ sessions'[player_name].active_round # None
                         THEN DictPut(given, player_name, before \o resp'.hints)
                         ELSE given
        /\ wonBest' = IF resp'.result = "correct"
                      THEN DictPut(wonBest, player_name,
                                   Max2(DictGet(wonBest, player_name, 0), resp'.score))
                      ELSE wonBest
        /\ overwritten' = IF resp'.op = "start_game" /\ player_name \in DOMAIN sessions
                       THEN Some([scored |-> sessions[player_name].round_scores # <<>>,
                                  round |-> sessions[player_name].active_round # None])
                       ELSE None

(***************************************************************************)
(* Inputs. A configuration names the finite input sets and the bounds of   *)
(* one specification.                                                      *)
(***************************************************************************)
Offers == {None} \cup {Some(power_ups[i]) : i \in 1..Len(power_ups)}

\* The integers of lo..hi within k of either end, and the middle one.
Sample(S, lo, hi, k) ==
    {n \in S : n < lo + k \/ n > hi - k \/ n = hi \div 2}

GamesPlayed(player_name) == DictGet(stats, player_name, ZeroStats).games_played

HasRound(player_name) ==
    /\ player_name \in DOMAIN sessions
    /\ sessions[player_name].active_round # None

MaxNumber(player_name) ==
    IF player_name \in DOMAIN sessions THEN sessions[player_name].max_number ELSE 100

\* The draws of a start_round for the player: randint(1, max_number), sampled.
SecretDraws(player_name, cfg) ==
    Sample(randint(1, MaxNumber(player_name)), 1, MaxNumber(player_name), cfg.k)

\* The draws that matter to make_guess: those of the start_round it calls.
GuessDraws(player_name, cfg) ==
    IF player_name \in DOMAIN sessions /\ ~HasRound(player_name)
    THEN SecretDraws(player_name, cfg) \X cfg.offers
    ELSE {<<1, None>>}

\* The guesses tried: integers around the range 1..max_number (both invalid
\* neighbours included), floats and a text.
GuessInputs(player_name, cfg) ==
    {JInt(n) : n \in Sample(0..(MaxNumber(player_name) + 1), 0,
                            MaxNumber(player_name) + 1, cfg.k)}
    \cup {JFloat(h) : h \in cfg.floats}
    \cup cfg.texts

\* A guess is tried while it can still count: the round it meets is below the
\* bound on attempts and the player below the bound on resolved rounds. A guess
\* that meets no session or a finished round is always tried.
GuessBounded(player_name, cfg) ==
    \/ player_name \notin DOMAIN sessions
    \/ HasRound(player_name) /\ ~sessions[player_name].active_round[1].active
    \/ /\ GamesPlayed(player_name) < cfg.maxGames
       /\ HasRound(player_name) =>
              sessions[player_name].active_round[1].attempts < cfg.maxAttempts

\* The calls of the engine's operations and the clock, with the inputs of a
\* configuration.
CallStartGame(cfg) ==
    \E p \in cfg.players, m \in cfg.modes, d \in cfg.tiers :
        /\ GamesPlayed(p) < cfg.maxGames
        /\ StartGame(p, m, d[1], d[2])
        /\ req' = [NoReq EXCEPT !.op = "start_game", !.player = p, !.mode = m,
                                !.difficulty = d[1], !.custom_max = d[2]]
        /\ Observe(p)

CallStartRound(cfg) ==
    \E p \in cfg.players :
        \E secret \in SecretDraws(p, cfg), offer \in cfg.offers :
            /\ GamesPlayed(p) < cfg.maxGames
            /\ p \in DOMAIN sessions => sessions[p].rounds_played < cfg.maxRounds
            /\ StartRound(p, secret, offer)
            /\ req' = [NoReq EXCEPT !.op = "start_round", !.player = p]
            /\ Observe(p)

CallMakeGuess(cfg) ==
    \E p \in cfg.players :
        \E g \in GuessInputs(p, cfg), draw \in GuessDraws(p, cfg), failing \in cfg.faults :
            /\ GuessBounded(p, cfg)
            /\ MakeGuess(p, g, draw[1], draw[2], failing)
            /\ req' = [NoReq EXCEPT !.op = "make_guess", !.player = p, !.guess = g,
                                    !.failing = failing]
            /\ Observe(p)

CallEndSession(cfg) ==
    \E p \in cfg.players :
        /\ EndSession(p)
        /\ req' = [NoReq EXCEPT !.op = "end_session", !.player = p]
        /\ Observe(p)

ClockTick(cfg) ==
    \E t \in cfg.times :
        /\ Tick(t)
        /\ UNCHANGED <<given, wonBest, overwritten>>

\* POST /start: the secret is drawn from the range of the new session.
CallStartRoute(cfg) ==
    \E p \in cfg.players, m \in cfg.modes, d \in cfg.tiers, offer \in cfg.offers :
        \E secret \in Sample(randint(1, resolve_difficulty(d[1], d[2])[1]), 1,
                             resolve_difficulty(d[1], d[2])[1], cfg.k) :
            /\ GamesPlayed(p) < cfg.maxGames
            /\ StartRoute(p, m, d[1], d[2], secret, offer)
            /\ req' = [NoReq EXCEPT !.op = "start_game", !.player = p, !.mode = m,
                                    !.difficulty = d[1], !.custom_max = d[2]]
            /\ Observe(p)

\* POST /guess, with and without a guess.
CallGuessRoute(cfg) ==
    \E p \in cfg.players :
        \E g \in GuessInputs(p, cfg) \cup {JNull}, draw \in GuessDraws(p, cfg),
           failing \in cfg.faults :
            /\ GuessBounded(p, cfg)
            /\ GuessRoute(p, g, draw[1], draw[2], failing)
            /\ req' = [NoReq EXCEPT !.op = "make_guess", !.player = p, !.guess = g,
                                    !.failing = failing]
            /\ Observe(p)

\* hof_route with a limit of 0..MaxLimit.
CallHallOfFame ==
    \E limit \in 0..MaxLimit :
        \E order \in SortedByBest(IF persistence THEN store.stats ELSE stats) :
            /\ HallOfFame(limit, order)
            /\ req' = [NoReq EXCEPT !.op = "hall_of_fame", !.limit = limit]
            /\ overwritten' = None
            /\ UNCHANGED <<given, wonBest>>

Step(cfg) ==
    \/ CallStartGame(cfg)
    \/ CallStartRound(cfg)
    \/ CallMakeGuess(cfg)
    \/ CallEndSession(cfg)
    \/ ClockTick(cfg)

\* Every <<difficulty, custom_max>> request: the five tiers, an unknown tier,
\* tier 5 with no, a zero, a negative and a positive custom_max, and a tier
\* that ignores its custom_max.
AllTiers ==
    {<<"1", None>>, <<"2", None>>, <<"3", None>>, <<"4", None>>, <<"9", None>>,
     <<"5", None>>, <<"5", Some(0)>>, <<"5", Some(-3)>>, <<"5", Some(4)>>,
     <<"5", Some(7)>>, <<"1", Some(4)>>}

\* The clock readings: with 0 they give the durations 0.5 s, 10.5 s, 49.5 s,
\* 50 s, 60 s and 60.5 s.
Readings == {21, 120, 121}

\* One round in detail: the fractional bonus 1.5, untimed and timed mode, a
\* fractional duration below 50 s and one above 60 s, typed guesses.
CfgScore ==
    [players |-> {"alice"},
     modes |-> {"1", "3"},
     tiers |-> {<<"2", None>>},
     offers |-> {None, Some("double_score")},
     times |-> Readings,
     k |-> 1,
     floats |-> {1, 3},
     texts |-> {JStr},
     faults |-> {{}},
     maxAttempts |-> MaxAttempts,
     maxGames |-> MaxGames,
     maxRounds |-> MaxRounds]

Next == Step(CfgScore)

Spec == Init /\ [][Next]_vars

\* Every tier and custom_max.
CfgTiers ==
    [players |-> {"alice"},
     modes |-> {"1"},
     tiers |-> AllTiers,
     offers |-> {None, Some("skip_turn")},
     times |-> {121},
     k |-> 1,
     floats |-> {},
     texts |-> {},
     faults |-> {{}},
     maxAttempts |-> MaxAttempts,
     maxGames |-> MaxGames,
     maxRounds |-> MaxRounds]

NextTiers == Step(CfgTiers)

SpecTiers == Init /\ [][NextTiers]_vars

\* Several rounds and sessions of one player: custom range 1..4, multi-round
\* and timed mode, the clock before and after the time limit.
CfgHist ==
    [players |-> {"alice"},
     modes |-> {"2", "3"},
     tiers |-> {<<"5", Some(4)>>},
     offers |-> {None},
     times |-> {121},
     k |-> 1,
     floats |-> {},
     texts |-> {JStr},
     faults |-> {{}},
     maxAttempts |-> MaxAttempts,
     maxGames |-> MaxGamesHist,
     maxRounds |-> MaxRoundsHist]

NextHist == Step(CfgHist)

SpecHist == Init /\ [][NextHist]_vars

\* Long rounds: custom range 1..8, up to MaxAttemptsHint valid guesses.
CfgHint ==
    [players |-> {"alice"},
     modes |-> {"1"},
     tiers |-> {<<"5", Some(8)>>},
     offers |-> {None},
     times |-> {20},
     k |-> 2,
     floats |-> {},
     texts |-> {JStr},
     faults |-> {{}},
     maxAttempts |-> MaxAttemptsHint,
     maxGames |-> MaxGames,
     maxRounds |-> MaxRounds]

NextHint == Step(CfgHint)

SpecHint == Init /\ [][NextHint]_vars

\* Both backends with store writes that fail: no write, every write, and each
\* kind of write alone; range 1..2, untimed and timed mode.
CfgStore ==
    [players |-> {"alice"},
     modes |-> {"1", "3"},
     tiers |-> {<<"5", Some(2)>>},
     offers |-> {None},
     times |-> {121},
     k |-> 1,
     floats |-> {},
     texts |-> {},
     faults |-> {{}, Writes, {"save_stats", "upsert_player_stats"},
                 {"save_achievements", "replace_achievements"}},
     maxAttempts |-> MaxAttempts,
     maxGames |-> MaxGamesStore,
     maxRounds |-> MaxRounds]

NextStore == Step(CfgStore)

SpecStore == InitIn(BOOLEAN) /\ [][NextStore]_vars

\* Two players and the leaderboard, under both backends: range 1..2, wins
\* after 0 or 10.5 s (scores 169 and 159).
CfgBoard ==
    [players |-> {"alice", "bob"},
     modes |-> {"1"},
     tiers |-> {<<"5", Some(2)>>},
     offers |-> {None},
     times |-> {21},
     k |-> 1,
     floats |-> {},
     texts |-> {},
     faults |-> {{}},
     maxAttempts |-> MaxAttemptsRace,
     maxGames |-> MaxGames,
     maxRounds |-> MaxRoundsRace]

NextBoard == Step(CfgBoard) \/ CallHallOfFame

SpecBoard == InitIn(BOOLEAN) /\ [][NextBoard]_vars

\* Many wins of one player: bonus 1.5 over 1..100 and bonus 1.0 over 1..1,
\* one valid guess per round, the clock at 0, 9.5 s and 50 s.
CfgWins ==
    [players |-> {"alice"},
     modes |-> {"1"},
     tiers |-> {<<"2", None>>, <<"5", Some(1)>>},
     offers |-> {None},
     times |-> {19, 100},
     k |-> 1,
     floats |-> {},
     texts |-> {},
     faults |-> {{}},
     maxAttempts |-> MaxAttemptsRace,
     maxGames |-> MaxGamesWins,
     maxRounds |-> MaxRoundsRace]

NextWins == Step(CfgWins)

SpecWins == Init /\ [][NextWins]_vars

\* Many wins of one player on the file backend while the stats file sometimes
\* cannot be written: range 1..1, one guess per round, the clock at 0 and 50 s.
CfgWinsFaulty ==
    [players |-> {"alice"},
     modes |-> {"1"},
     tiers |-> {<<"5", Some(1)>>},
     offers |-> {None},
     times |-> {100},
     k |-> 1,
     floats |-> {},
     texts |-> {},
     faults |-> {{}, {"save_stats"}},
     maxAttempts |-> MaxAttemptsRace,
     maxGames |-> MaxGamesWins,
     maxRounds |-> MaxRoundsRace]

NextWinsFaulty == Step(CfgWinsFaulty)

SpecWinsFaulty == Init /\ [][NextWinsFaulty]_vars

\* The HTTP operations only, one at a time: every mode, range 1..2, the clock
\* before and after the time limit.
CfgHttp ==
    [players |-> {"alice"},
     modes |-> {"1", "2", "3"},
     tiers |-> {<<"5", Some(2)>>},
     offers |-> {None, Some("extra_hint")},
     times |-> {121},
     k |-> 1,
     floats |-> {},
     texts |-> {JStr},
     faults |-> {{}},
     maxAttempts |-> MaxAttempts,
     maxGames |-> MaxGamesStore,
     maxRounds |-> MaxRounds]

NextHttp ==
    \/ CallStartRoute(CfgHttp)
    \/ CallGuessRoute(CfgHttp)
    \/ CallEndSession(CfgHttp)
    \/ ClockTick(CfgHttp)

SpecHttp == Init /\ [][NextHttp]_vars

\* The threaded server: two guess requests of one player under way at once,
\* range 1..2. The other operations are called while no guess is
\* under way.
CfgRace ==
    [players |-> {"alice"},
     modes |-> {"1"},
     tiers |-> {<<"5", Some(2)>>},
     offers |-> {None},
     times |-> {21},
     k |-> 1,
     floats |-> {},
     texts |-> {},
     faults |-> {{}},
     maxAttempts |-> MaxAttemptsRace,
     maxGames |-> MaxGamesRace,
     maxRounds |-> MaxRoundsRace]

Requests == {"first", "second"}

\* A guess request arrives and runs up to the end of its checks.
RequestEnters(cfg) ==
    \E id \in Requests, p \in cfg.players :
        \E g \in GuessInputs(p, cfg), draw \in GuessDraws(p, cfg) :
            /\ GuessBounded(p, cfg)
            /\ GuessEnter(id, p, g, draw[1], draw[2])
            /\ req' = [NoReq EXCEPT !.op = "make_guess", !.player = p, !.guess = g]
            /\ IF id \in DOMAIN inflight'
               THEN /\ given' = IF NoRound(sessions[p]) THEN DictPut(given, p, <<>>)
                                ELSE given
                    /\ overwritten' = None
                    /\ UNCHANGED wonBest
               ELSE Observe(p)

\* A request under way takes its next step.
RequestCounts ==
    \E id \in DOMAIN inflight :
        /\ GuessCount(id)
        /\ UNCHANGED req
        /\ IF id \in DOMAIN inflight' THEN UNCHANGED <<given, wonBest, overwritten>>
           ELSE Observe(inflight[id].player)

RequestSolves ==
    \E id \in DOMAIN inflight :
        GuessSolve(id) /\ UNCHANGED <<req, given, wonBest, overwritten>>

RequestRecords ==
    \E id \in DOMAIN inflight :
        GuessRecord(id) /\ UNCHANGED <<req, given, wonBest, overwritten>>

RequestFinishes ==
    \E id \in DOMAIN inflight :
        GuessFinish(id) /\ UNCHANGED req /\ Observe(inflight[id].player)

NextRace ==
    \/ inflight = EmptyDict /\ CallStartGame(CfgRace)
    \/ inflight = EmptyDict /\ CallStartRound(CfgRace)
    \/ inflight = EmptyDict /\ CallEndSession(CfgRace)
    \/ ClockTick(CfgRace)
    \/ RequestEnters(CfgRace)
    \/ RequestCounts
    \/ RequestSolves
    \/ RequestRecords
    \/ RequestFinishes

SpecRace == Init /\ [][NextRace]_vars

(***************************************************************************)
(* Vocabulary of the properties.                                           *)
(***************************************************************************)
PlayerNames == {"alice", "bob"}

Rnd(player_name) == sessions[player_name].active_round[1]

StatsOf(player_name) == DictGet(stats, player_name, ZeroStats)

\* The step just taken is a call of the operation by the player (the clock
\* stands still during a call).
GuessStep(player_name) ==
    req'.op = "make_guess" /\ req'.player = player_name /\ now' = now

EndStep(player_name) ==
    req'.op = "end_session" /\ req'.player = player_name /\ now' = now

NoActiveSession == {"No active session", "No active session for player"}

RoundFinished == {"Round already finished for this player"}

InvalidGuess == {"Guess must be integer", "Guess must be between 1 and max_number"}

\* The round's time limit (60 s) has expired at clock reading t.
Expired(rnd, t) == rnd.time_limit # None /\ t - rnd.start_time > 120

IsIntegerInRange(g, max_number) == g.t = "int" /\ g.v >= 1 /\ g.v <= max_number

\* floor(num / den) for num >= 0, den > 0.
Floor(num, den) == CHOOSE q \in 0..num : q * den <= num /\ num < (q + 1) * den

WrongResults == {"too_low", "too_high"}

(***************************************************************************)
(* C1. A valid guess equal to the secret of an active, unexpired round     *)
(* marks the round inactive and returns "correct" with a non-negative      *)
(* integer score = difficulty_score + time_bonus + proximity_bonus +       *)
(* powerup_bonus, doubled when double_score is set, where base =           *)
(* max(0, 100 - attempts), difficulty_score = floor(base * bonus),         *)
(* time_bonus = max(0, 50 - floor(elapsed)) if elapsed < 50 else 0,        *)
(* proximity_bonus = max(0, 20 - closest) if closest < 20 else 0,          *)
(* powerup_bonus = 25 if a power-up was consumed; the same score is        *)
(* appended to round_scores.                                               *)
(***************************************************************************)
ClaimedScore(attempts, elapsed, closest, bonus, consumed, doubled) ==
    LET base == IF attempts < 100 THEN 100 - attempts ELSE 0
        difficulty == Floor(base * bonus, 10)
        time == IF elapsed < 100 /\ Floor(elapsed, 2) < 50
                THEN 50 - Floor(elapsed, 2) ELSE 0
        proximity == IF closest < 20 THEN 20 - closest ELSE 0
        powerup == IF consumed THEN 25 ELSE 0
        sum == difficulty + time + proximity + powerup
    IN  IF doubled THEN sum + sum ELSE sum

\* The score computed by make_guess is the claimed one on a grid of inputs
\* that covers every branch of the formula: base clamped at 0 (attempts >= 100),
\* time bonus present and absent, proximity bonus present and absent, power-up
\* consumed or not, score doubled or not.
ScoreFormulaAgrees ==
    \A attempts \in {1, 2, 7, 99, 100, 101, 130},
       elapsed \in {0, 1, 21, 98, 99, 100, 121},
       closest \in {0, 1, 19, 20, 50},
       bonus \in {10, 15, 20, 30},
       used \in {None, Some("double_score")},
       doubled \in BOOLEAN :
        /\ total_score(attempts, elapsed, closest, bonus, used, doubled) \in Nat
        /\ total_score(attempts, elapsed, closest, bonus, used, doubled)
               = ClaimedScore(attempts, elapsed, closest, bonus, used # None, doubled)

C1_CorrectGuessScores ==
    /\ (resp = NoResp => ScoreFormulaAgrees)
    /\ [][\A p \in DOMAIN sessions :
             (/\ GuessStep(p)
              /\ HasRound(p) => Rnd(p).active
              /\ ~Expired(sessions'[p].active_round[1], now)
              /\ req'.guess = JInt(sessions'[p].active_round[1].secret_number))
             => LET r == sessions'[p].active_round[1]
                IN  /\ ~r.active
                    /\ resp'.result = "correct"
                    /\ resp'.score \in Nat
                    /\ resp'.score =
                           ClaimedScore(r.attempts, now - r.start_time,
                                        r.closest_distance, sessions[p].difficulty_bonus,
                                        r.powerup_used # None, r.double_score)
                    /\ sessions'[p].round_scores =
                           Append(sessions[p].round_scores, resp'.score)]_vars

\* A first-guess win at bonus 1.5 after 10.5 s, with a power-up on offer:
\* floor(99 * 1.5) + (50 - 10) + 20 = 208.
C1_Witness ==
    /\ resp.result = "correct"
    /\ resp.attempts = 1
    /\ resp.time = 21
    /\ resp.score = 208
    /\ "alice" \in DOMAIN sessions
    /\ sessions["alice"].difficulty_bonus = 15
    /\ Rnd("alice").offered_powerup # None
    /\ sessions["alice"].round_scores = <<208>>

(***************************************************************************)
(* C2. On an active round whose time limit has not expired, a guess that   *)
(* is not an integer in [1, max_number] fails with an InvalidGuess error   *)
(* and leaves the round's attempts, closest_distance and active flag       *)
(* unchanged.                                                              *)
(***************************************************************************)
C2_InvalidGuessRejected ==
    [][\A p \in DOMAIN sessions :
          (/\ GuessStep(p)
           /\ HasRound(p)
           /\ Rnd(p).active
           /\ ~Expired(Rnd(p), now)
           /\ ~IsIntegerInRange(req'.guess, sessions[p].max_number))
          => /\ resp'.error \in InvalidGuess
             /\ sessions'[p].active_round[1].attempts = Rnd(p).attempts
             /\ sessions'[p].active_round[1].closest_distance =
                    Rnd(p).closest_distance
             /\ sessions'[p].active_round[1].active]_vars

(***************************************************************************)
(* C3. In a session with a time limit, a guess (whatever its value) on an  *)
(* active round after the limit has expired marks the round inactive,      *)
(* appends 0 to round_scores, records a loss (games_played + 1, games_won  *)
(* and best_score unchanged) and returns "timeout" revealing the secret;   *)
(* every later guess on that round is refused and changes nothing.         *)
(***************************************************************************)
C3_TimeoutIsTerminal ==
    [][\A p \in DOMAIN sessions :
          (GuessStep(p) /\ HasRound(p))
          => /\ (Rnd(p).active /\ sessions[p].time_limit # None
                 /\ Expired(Rnd(p), now))
                => /\ resp'.result = "timeout"
                   /\ resp'.revealed = Rnd(p).secret_number
                   /\ ~sessions'[p].active_round[1].active
                   /\ sessions'[p].round_scores = Append(sessions[p].round_scores, 0)
                   /\ stats'[p].games_played = StatsOf(p).games_played + 1
                   /\ stats'[p].games_won = StatsOf(p).games_won
                   /\ stats'[p].best_score = StatsOf(p).best_score
             /\ ~Rnd(p).active
                => /\ resp'.error \in RoundFinished
                   /\ sessions' = sessions
                   /\ stats' = stats]_vars

\* A text guess answered "timeout" after a wrong guess in the round.
C3_Witness ==
    /\ resp.result = "timeout"
    /\ req.guess = JStr
    /\ "alice" \in DOMAIN sessions
    /\ ~Rnd("alice").active
    /\ Rnd("alice").attempts = 1
    /\ sessions["alice"].round_scores = <<0>>
    /\ StatsOf("alice").games_played = 1
    /\ StatsOf("alice").games_won = 0

(***************************************************************************)
(* C4. endSession for a player with a session returns total_score = the    *)
(* sum of the session's round_scores and removes the session; while the    *)
(* player has no session, guess and endSession fail with NoActiveSession   *)
(* and only start creates a session again.                                 *)
(***************************************************************************)
RECURSIVE SumFromRight(_)
SumFromRight(s) ==
    IF Len(s) = 0 THEN 0 ELSE s[Len(s)] + SumFromRight(SubSeq(s, 1, Len(s) - 1))

C4_EndSessionClears ==
    [][\A p \in PlayerNames :
          /\ (EndStep(p) /\ p \in DOMAIN sessions)
             => /\ resp'.error = ""
                /\ resp'.total_score = SumFromRight(sessions[p].round_scores)
                /\ p \notin DOMAIN sessions'
          /\ ((GuessStep(p) \/ EndStep(p)) /\ p \notin DOMAIN sessions)
             => /\ resp'.error \in NoActiveSession
                /\ p \notin DOMAIN sessions'
          /\ (p \notin DOMAIN sessions /\ p \in DOMAIN sessions')
             => req'.op = "start_game"]_vars

\* A session of two won rounds with different scores has just been ended.
C4_Witness ==
    /\ resp.op = "end_session"
    /\ resp.error = ""
    /\ Len(resp.round_scores) = 2
    /\ resp.round_scores[1] > resp.round_scores[2]
    /\ resp.round_scores[2] > 0
    /\ resp.total_score = resp.round_scores[1] + resp.round_scores[2]
    /\ "alice" \notin DOMAIN sessions

(***************************************************************************)
(* C5. For every player best_score never decreases, and it always equals   *)
(* the largest score among the player's won rounds (0 if there is none).   *)
(***************************************************************************)
BestIsWonMax ==
    \A p \in PlayerNames : StatsOf(p).best_score = DictGet(wonBest, p, 0)

C5_BestScoreRunningMax ==
    /\ BestIsWonMax
    /\ [][/\ \A p \in PlayerNames :
                DictGet(stats', p, ZeroStats).best_score >= StatsOf(p).best_score
          /\ BestIsWonMax']_vars

\* A won round whose score is below the player's best score.
C5_Witness ==
    /\ resp.result = "correct"
    /\ resp.score > 0
    /\ resp.score < StatsOf("alice").best_score
    /\ StatsOf("alice").games_won >= 2

(***************************************************************************)
(* C6. An achievement in a player's unlocked set stays in it after every   *)
(* later operation: the set only grows.                                    *)
(***************************************************************************)
C6_AchievementsOnlyGrow ==
    [][\A p \in DOMAIN achievements :
          /\ p \in DOMAIN achievements'
          /\ SeqToSet(achievements[p]) \subseteq SeqToSet(achievements'[p])]_vars

\* A second win that unlocks nothing new, the first win's achievements kept.
C6_Witness ==
    /\ resp.result = "correct"
    /\ resp.new_achievements = <<>>
    /\ StatsOf("alice").games_won = 2
    /\ "alice" \in DOMAIN achievements
    /\ "First Blood" \in SeqToSet(achievements["alice"])

(***************************************************************************)
(* C7. In every reachable state of every session rounds_played <=          *)
(* rounds_total.                                                           *)
(***************************************************************************)
C7_RoundsWithinTotal ==
    \A p \in DOMAIN sessions : sessions[p].rounds_played <= sessions[p].rounds_total

(***************************************************************************)
(* C8. For every valid difficulty tier, start creates a session whose      *)
(* (max_number, difficulty_bonus) is the table entry: 1 -> (50, 1.0),      *)
(* 2 -> (100, 1.5), 3 -> (500, 2.0), 4 -> (1000, 3.0), 5 -> (customMax if  *)
(* it is positive, else 100; 1.0); every round's secret number lies in     *)
(* [1, max_number].                                                        *)
(***************************************************************************)
\* The table, the bonus in tenths.
ClaimedTier ==
    [d \in {"1", "2", "3", "4"} |->
        IF d = "1" THEN <<50, 10>> ELSE IF d = "2" THEN <<100, 15>>
        ELSE IF d = "3" THEN <<500, 20>> ELSE <<1000, 30>>]

C8_TierTable ==
    /\ (req.op = "start_game" /\ req.difficulty \in DOMAIN ClaimedTier)
       => /\ sessions[req.player].max_number = ClaimedTier[req.difficulty][1]
          /\ sessions[req.player].difficulty_bonus = ClaimedTier[req.difficulty][2]
    /\ (req.op = "start_game" /\ req.difficulty = "5")
       => /\ sessions[req.player].difficulty_bonus = 10
          /\ sessions[req.player].max_number =
                 IF req.custom_max # None /\ req.custom_max[1] > 0
                 THEN req.custom_max[1] ELSE 100
    /\ \A p \in DOMAIN sessions :
          HasRound(p) => /\ Rnd(p).secret_number >= 1
                         /\ Rnd(p).secret_number <= sessions[p].max_number

\* A tier-5 session with custom_max 7 whose round drew the secret 7.
C8_Witness ==
    /\ "alice" \in DOMAIN sessions
    /\ sessions["alice"].max_number = 7
    /\ sessions["alice"].difficulty_bonus = 10
    /\ HasRound("alice")
    /\ Rnd("alice").secret_number = 7

(***************************************************************************)
(* C9. Every wrong-guess response carries zero or one hint, each hint      *)
(* given consumes one unit of the round's hint budget (1), and once the    *)
(* budget is exhausted no later wrong guess of the round carries a hint:   *)
(* the hints given in a round never outnumber its budget.                  *)
(***************************************************************************)
HintsWithinBudget ==
    \A p \in DOMAIN sessions :
        HasRound(p) => /\ Rnd(p).extra_hints >= 0
                       /\ Len(DictGet(given, p, <<>>)) + Rnd(p).extra_hints = 1

C9_HintBudget ==
    /\ HintsWithinBudget
    /\ [][/\ HintsWithinBudget'
          /\ \A p \in DOMAIN sessions :
                (GuessStep(p) /\ resp'.result \in WrongResults)
                => LET before == IF HasRound(p) THEN Rnd(p).extra_hints ELSE 1
                   IN  /\ Len(resp'.hints) <= 1
                       /\ sessions'[p].active_round[1].extra_hints =
                              before - Len(resp'.hints)
                       /\ before = 0 => resp'.hints = <<>>]_vars

\* The seventh wrong guess of a round: the one hint was given earlier, the
\* response carries none although get_hint has hints to offer.
C9_Witness ==
    /\ resp.result \in WrongResults
    /\ resp.attempts = 7
    /\ resp.hints = <<>>
    /\ HasRound("alice")
    /\ Rnd("alice").extra_hints = 0
    /\ Len(given["alice"]) = 1
    /\ Len(get_hint(Rnd("alice").secret_number, sessions["alice"].max_number, 7)) = 3

(***************************************************************************)
(* C10. Hints unlock at attempt thresholds: no hint while attempts < 3,    *)
(* the even/odd hint from 3 attempts, the quadrant hint from 5, the        *)
(* divisibility hint from 7, and each kind is returned by guess in the     *)
(* rounds that reach its threshold. Read for every round: once a wrong     *)
(* guess has been answered at or past a threshold, the hint of that        *)
(* threshold has been returned in the round or budget remains to return    *)
(* it.                                                                     *)
(***************************************************************************)
ParityHints == {"The number is even", "The number is odd"}

QuarterHints == {"The number is in the first quarter of the range",
                 "The number is in the second quarter of the range",
                 "The number is in the third quarter of the range",
                 "The number is in the fourth quarter of the range"}

DivisibilityHints == {"The number is divisible by 3", "The number is divisible by 5",
                      "The number is divisible by 7"}

C10_EachKindReturned ==
    \A p \in DOMAIN sessions :
        (HasRound(p) /\ resp.player = p /\ resp.result \in WrongResults)
        => LET r == Rnd(p)
               got == SeqToSet(given[p])
               divisible == r.secret_number % 3 = 0 \/ r.secret_number % 5 = 0
                            \/ r.secret_number % 7 = 0
           IN  /\ r.attempts < 3 => got = {}
               /\ r.attempts >= 3 => got \cap ParityHints # {} \/ r.extra_hints > 0
               /\ r.attempts >= 5 => got \cap QuarterHints # {} \/ r.extra_hints > 0
               /\ (r.attempts >= 7 /\ divisible)
                  => got \cap DivisibilityHints # {} \/ r.extra_hints > 0

(***************************************************************************)
(* C11. A store write that fails during a guess that resolves a round      *)
(* never surfaces to the caller, under either backend: the guess returns   *)
(* its normal result ("correct" or "timeout"), and round_scores and        *)
(* PlayerStats are updated in memory.                                      *)
(***************************************************************************)
\* The step resolves the player's round: active (or not yet started) before,
\* inactive after.
Resolves(p) ==
    /\ p \in DOMAIN sessions
    /\ p \in DOMAIN sessions'
    /\ HasRound(p) => Rnd(p).active
    /\ sessions'[p].active_round # None
    /\ ~sessions'[p].active_round[1].active

SwallowedBy(p) ==
    (GuessStep(p) /\ Resolves(p) /\ req'.failing # {})
    => /\ ~resp'.raised
       /\ resp'.result \in {"correct", "timeout"}
       /\ Len(sessions'[p].round_scores) = Len(sessions[p].round_scores) + 1
       /\ p \in DOMAIN stats'
       /\ stats'[p].games_played = StatsOf(p).games_played + 1

C11_StoreFailureSwallowed == [][\A p \in PlayerNames : SwallowedBy(p)]_vars

\* The same statement for the relational backend alone.
RelationalSwallows == [][persistence => \A p \in PlayerNames : SwallowedBy(p)]_vars

\* With the relational backend memory and store can differ after a failed write.
MemoryIsStored ==
    \A p \in PlayerNames :
        /\ DictGet(store.stats, p, ZeroStats) = StatsOf(p)
        /\ DictGet(store.achievements, p, <<>>) = DictGet(achievements, p, <<>>)

(***************************************************************************)
(* C12. Two simultaneous guess requests for the same player are not        *)
(* serialized: a request that has passed the active-round check resolves   *)
(* the round whatever the other request has done meanwhile, so when both   *)
(* pass the check one round is resolved twice, two scores are appended to  *)
(* round_scores and two games are counted in PlayerStats.                  *)
(***************************************************************************)
\* The request moves from one step to the next.
Moves(id, from, to) ==
    /\ id \in DOMAIN inflight
    /\ inflight[id].pc = from
    /\ id \in DOMAIN inflight'
    /\ inflight'[id].pc = to

C12_GuessesNotSerialized ==
    [][\A id \in Requests :
          /\ Moves(id, "solve", "record")
             => LET p == inflight[id].player
                IN  /\ ~sessions'[p].active_round[1].active
                    /\ sessions'[p].round_scores =
                           Append(sessions[p].round_scores, inflight'[id].score)
          /\ Moves(id, "record", "achieve")
             => LET p == inflight[id].player
                IN  /\ stats'[p].games_played = StatsOf(p).games_played + 1
                    /\ stats'[p].games_won = StatsOf(p).games_won + 1]_vars

\* Both requests have returned: the first round of the session was resolved
\* twice, with two scores appended and two games (both won) counted.
C12_Witness ==
    /\ inflight = EmptyDict
    /\ "alice" \in DOMAIN sessions
    /\ sessions["alice"].rounds_played = 1
    /\ Rnd("alice").round_num = 1
    /\ ~Rnd("alice").active
    /\ Rnd("alice").attempts = 2
    /\ Len(sessions["alice"].round_scores) = 2
    /\ StatsOf("alice").games_played = 2
    /\ StatsOf("alice").games_won = 2
    /\ resp.result = "correct"

(***************************************************************************)
(* C13. There is at most one session per player: start for a player who    *)
(* already has a session never fails and replaces that session with a      *)
(* fresh one (rounds_played = 0, round_scores empty, no active round),     *)
(* discarding the old session's round_scores and round.                    *)
(***************************************************************************)
StartStep(player_name) ==
    req'.op = "start_game" /\ req'.player = player_name /\ now' = now

\* The session map holds one session per player name, the player's own.
OneSessionPerPlayer == \A p \in DOMAIN sessions : sessions[p].player = p

C13_StartOverwrites ==
    /\ OneSessionPerPlayer
    /\ [][/\ OneSessionPerPlayer'
          /\ \A p \in PlayerNames :
                StartStep(p)
                => /\ resp'.error = ""
                   /\ ~resp'.raised
                   /\ p \in DOMAIN sessions'
                   /\ sessions'[p].rounds_played = 0
                   /\ sessions'[p].round_scores = <<>>
                   /\ sessions'[p].active_round = None
                   /\ \A q \in DOMAIN sessions' : q = p \/ q \in DOMAIN sessions]_vars

\* start has just replaced a session that had round scores and a round.
C13_Witness ==
    /\ resp.op = "start_game"
    /\ resp.error = ""
    /\ overwritten = Some([scored |-> TRUE, round |-> TRUE])
    /\ "alice" \in DOMAIN sessions
    /\ sessions["alice"].rounds_played = 0
    /\ sessions["alice"].round_scores = <<>>
    /\ sessions["alice"].active_round = None

(***************************************************************************)
(* C14. For every limit >= 0 the leaderboard returns min(limit, number of  *)
(* players with stats) entries in non-increasing best_score order, no      *)
(* omitted player has a strictly greater best_score than a returned one,   *)
(* and each entry's achievement count is the number of achievements        *)
(* currently unlocked for that player.                                     *)
(***************************************************************************)
C14_Leaderboard ==
    resp.op = "hall_of_fame"
    => LET board == resp.board
           returned == {board[i].player : i \in DOMAIN board}
           size == Cardinality(DOMAIN stats)
       IN  /\ req.limit >= 0
           /\ Len(board) = IF req.limit < size THEN req.limit ELSE size
           /\ Cardinality(returned) = Len(board)
           /\ returned \subseteq DOMAIN stats
           /\ \A i \in DOMAIN board :
                 /\ board[i].best_score = stats[board[i].player].best_score
                 /\ board[i].achievements =
                        Cardinality(SeqToSet(DictGet(achievements, board[i].player, <<>>)))
                 /\ \A j \in DOMAIN board :
                       i < j => board[i].best_score >= board[j].best_score
                 /\ \A q \in (DOMAIN stats) \ returned :
                       stats[q].best_score <= board[i].best_score

\* The relational backend asked for one entry while two players have stats:
\* the entry is the player with the strictly greater best score, who has
\* unlocked achievements.
C14_Witness ==
    /\ resp.op = "hall_of_fame"
    /\ persistence
    /\ req.limit = 1
    /\ DOMAIN stats = {"alice", "bob"}
    /\ Len(resp.board) = 1
    /\ resp.board[1].player = "bob"
    /\ resp.board[1].best_score > stats["alice"].best_score
    /\ stats["alice"].best_score > 0
    /\ resp.board[1].achievements >= 3

(***************************************************************************)
(* C15. Once a session's round has resolved (correct guess or timeout),    *)
(* every later guess for that player in the same session fails with        *)
(* RoundFinished and leaves the round (attempts, closest_distance),        *)
(* round_scores, PlayerStats and achievements unchanged, until a new round *)
(* or a new session is started: a guess that meets an active round or no   *)
(* round is not refused as RoundFinished.                                  *)
(***************************************************************************)
C15_ResolvedRoundRefusesGuesses ==
    [][\A p \in DOMAIN sessions :
          GuessStep(p)
          => IF HasRound(p) /\ ~Rnd(p).active
             THEN /\ resp'.error \in RoundFinished
                  /\ sessions'[p].active_round[1].attempts = Rnd(p).attempts
                  /\ sessions'[p].active_round[1].closest_distance =
                         Rnd(p).closest_distance
                  /\ sessions'[p] = sessions[p]
                  /\ stats' = stats
                  /\ achievements' = achievements
             ELSE resp'.error \notin RoundFinished]_vars

\* The secret itself, guessed again after the round was won, is refused.
C15_Witness ==
    /\ resp.error \in RoundFinished
    /\ HasRound("alice")
    /\ ~Rnd("alice").active
    /\ req.guess = JInt(Rnd("alice").secret_number)
    /\ Rnd("alice").attempts = 2
    /\ sessions["alice"].round_scores # <<0>>
    /\ Len(sessions["alice"].round_scores) = 1
    /\ StatsOf("alice").games_won = 1

(***************************************************************************)
(* C16. After every won round, evaluated against the player's already      *)
(* updated stats, each rule whose predicate holds is in the player's       *)
(* unlocked set: first win (games_won = 1), win with elapsed time < 10 s,  *)
(* win in 1 attempt, score > 150, 10th win (games_won >= 10), win in <= 5  *)
(* attempts, score > 200; and no achievement is added whose predicate is   *)
(* false for that round.                                                   *)
(***************************************************************************)
\* The rules as the claim states them, by achievement; elapsed in half seconds.
ClaimedRule(name, games_won, elapsed, attempts, score) ==
    \/ name = "First Blood" /\ games_won = 1
    \/ name = "Speed Demon" /\ elapsed + 1 <= 20
    \/ name = "Mind Reader" /\ attempts = 1
    \/ name = "Perfectionist" /\ score >= 151
    \/ name = "Champion" /\ games_won >= 10
    \/ name = "Lightning Fast" /\ attempts \in 0..5
    \/ name = "Show Off" /\ score >= 201

AchievementNames == {"First Blood", "Speed Demon", "Mind Reader", "Perfectionist",
                     "Champion", "Lightning Fast", "Show Off"}

\* After an evaluation that took the player's list from before to after: every
\* rule that holds is unlocked, and nothing was added whose rule is false.
RulesApplied(before, after, games_won, elapsed, attempts, score) ==
    \A name \in AchievementNames :
        /\ ClaimedRule(name, games_won, elapsed, attempts, score)
           => name \in SeqToSet(after)
        /\ (name \in SeqToSet(after) /\ name \notin SeqToSet(before))
           => ClaimedRule(name, games_won, elapsed, attempts, score)

\* check_achievements agrees with the rules on a grid that takes every rule on
\* both sides of its threshold, from an empty and from a part-filled list.
AchievementRulesAgree ==
    \A games_won \in {1, 2, 9, 10, 11}, elapsed \in {0, 19, 20, 21},
       attempts \in {1, 2, 5, 6}, score \in {150, 151, 200, 201},
       before \in {<<>>, <<"Speed Demon", "Show Off">>} :
        LET st == [p \in {"alice"} |-> [ZeroStats EXCEPT !.games_won = games_won,
                                                         !.games_played = games_won]]
            ach == check_achievements([p \in {"alice"} |-> before], st, "alice",
                                      attempts, score, elapsed)
        IN  RulesApplied(before, ach[1]["alice"], games_won, elapsed, attempts, score)

NoDuplicates ==
    \A p \in DOMAIN achievements :
        Cardinality(SeqToSet(achievements[p])) = Len(achievements[p])

\* The rule order of the evaluator.
RuleOrder == <<"First Blood", "Speed Demon", "Mind Reader", "Perfectionist",
               "Champion", "Lightning Fast", "Show Off">>

RuleNumber(name) == CHOOSE i \in DOMAIN RuleOrder : RuleOrder[i] = name

InRuleOrder(names) ==
    /\ SeqToSet(names) \subseteq SeqToSet(RuleOrder)
    /\ \A i, j \in DOMAIN names : i < j => RuleNumber(names[i]) < RuleNumber(names[j])

C17_NewAreTheAppended ==
    /\ NoDuplicates
    /\ [][/\ NoDuplicates'
          /\ \A p \in PlayerNames :
                LET before == DictGet(achievements, p, <<>>)
                    after == DictGet(achievements', p, <<>>)
                IN  IF GuessStep(p) /\ resp'.result = "correct"
                    THEN /\ after = before \o resp'.new_achievements
                         /\ InRuleOrder(resp'.new_achievements)
                         /\ SeqToSet(resp'.new_achievements) \cap SeqToSet(before) = {}
                    ELSE after = before]_vars

\* A second win that unlocks three achievements around the three the first
\* win unlocked: they are appended, in rule order, after the earlier ones.
C17_Witness ==
    /\ resp.result = "correct"
    /\ StatsOf("alice").games_won = 2
    /\ resp.new_achievements = <<"Speed Demon", "Perfectionist", "Show Off">>
    /\ achievements["alice"] = <<"First Blood", "Mind Reader", "Lightning Fast",
                                 "Speed Demon", "Perfectionist", "Show Off">>

(***************************************************************************)
(* C18. Driven only through the HTTP operations (POST /start, which starts *)
(* the first round, POST /guess, POST /end) executed one at a time, a      *)
(* session resolves at most one round in every mode: rounds_played stays 1 *)
(* and round_scores never has more than one entry, also in multi-round     *)
(* mode where rounds_total = 3, because guess starts a round only when the *)
(* session has no round at all and a resolved round is never replaced.     *)
(***************************************************************************)
C18_OneRoundOverHttp ==
    \A p \in DOMAIN sessions :
        /\ sessions[p].rounds_played = 1
        /\ HasRound(p)
        /\ Rnd(p).round_num = 1
        /\ Len(sessions[p].round_scores) <= 1
        /\ Len(sessions[p].round_scores) = 1 <=> ~Rnd(p).active

\* A multi-round session whose only round is won, a further guess refused.
C18_Witness ==
    /\ "alice" \in DOMAIN sessions
    /\ sessions["alice"].mode = "2"
    /\ sessions["alice"].rounds_total = 3
    /\ sessions["alice"].rounds_played = 1
    /\ Len(sessions["alice"].round_scores) = 1
    /\ sessions["alice"].round_scores[1] > 0
    /\ resp.error \in RoundFinished

(***************************************************************************)
(* C19. On every solved round closest_distance is 0 when the score is      *)
(* computed, no power-up is ever consumed and double_score is never set,   *)
(* so the score always equals floor(max(0, 100 - attempts) *               *)
(* difficulty_bonus) + time_bonus + 20 and is therefore at least 20.       *)
(***************************************************************************)
NeverBoosted ==
    \A p \in DOMAIN sessions :
        HasRound(p) => Rnd(p).powerup_used = None /\ ~Rnd(p).double_score

C19_SolvedScoreShape ==
    /\ NeverBoosted
    /\ [][/\ NeverBoosted'
          /\ \A p \in DOMAIN sessions :
                (GuessStep(p) /\ resp'.result = "correct")
                => LET r == sessions'[p].active_round[1]
                       elapsed == now - r.start_time
                       base == IF r.attempts < 100 THEN 100 - r.attempts ELSE 0
                       time_bonus == IF elapsed < 100 THEN 50 - Floor(elapsed, 2) ELSE 0
                   IN  /\ r.closest_distance = 0
                       /\ resp'.score =
                              Floor(base * sessions[p].difficulty_bonus, 10)
                              + time_bonus + 20
                       /\ resp'.score >= 20]_vars

\* A round with the double_score power-up on offer, won at the second guess
\* after 60 s: floor(98 * 1.5) + 0 + 20 = 167, not doubled, no 25 added.
C19_Witness ==
    /\ resp.result = "correct"
    /\ resp.attempts = 2
    /\ resp.time = 120
    /\ resp.score = 167
    /\ HasRound("alice")
    /\ Rnd("alice").offered_powerup = Some("double_score")
    /\ Rnd("alice").closest_distance = 0

(***************************************************************************)
(* C20. For every player games_won <= games_played and best_score <=       *)
(* total_score, and games_played equals the number of that player's rounds *)
(* that resolved (correct guess or timeout): it goes up by one on the      *)
(* guess that resolves a round, and start, startRound, endSession, wrong   *)
(* guesses and rejected guesses never change PlayerStats, so a round       *)
(* abandoned by endSession or by a new start is not counted as played.     *)
(***************************************************************************)
StatsSound ==
    \A p \in PlayerNames :
        /\ StatsOf(p).games_won <= StatsOf(p).games_played
        /\ StatsOf(p).best_score <= StatsOf(p).total_score

C20_StatsCountResolvedRounds ==
    /\ StatsSound
    /\ stats = EmptyDict
    /\ [][/\ StatsSound'
          /\ \A p \in PlayerNames :
                IF GuessStep(p) /\ Resolves(p)
                THEN /\ resp'.result \in {"correct", "timeout"}
                     /\ p \in DOMAIN stats'
                     /\ stats'[p].games_played = StatsOf(p).games_played + 1
                     /\ \A q \in PlayerNames \ {p} :
                           DictGet(stats', q, ZeroStats) = StatsOf(q)
                ELSE req'.player = p => stats' = stats]_vars

\* start has just replaced a session whose round was under way and unscored,
\* after the player's one resolved round: that one alone is counted.
C20_Witness ==
    /\ resp.op = "start_game"
    /\ overwritten = Some([scored |-> FALSE, round |-> TRUE])
    /\ StatsOf("alice").games_played = 1
    /\ StatsOf("alice").games_won = 0
    /\ StatsOf("alice").total_score = 0


(***************************************************************************)
(* C21. Starting from empty stats and achievements, in every reachable     *)
(* state a player's unlocked set is closed under the rule implications:    *)
(* the 1-attempt achievement implies the <=5-attempt achievement, the      *)
(* score > 200 achievement implies the score > 150 achievement, and the    *)
(* 10-wins achievement implies the first-win achievement.                  *)
(***************************************************************************)
Unlocked(p) == SeqToSet(DictGet(achievements, p, <<>>))

AttemptsClosed(p) == "Mind Reader" \in Unlocked(p) => "Lightning Fast" \in Unlocked(p)

ScoreClosed(p) == "Show Off" \in Unlocked(p) => "Perfectionist" \in Unlocked(p)

WinsClosed(p) == "Champion" \in Unlocked(p) => "First Blood" \in Unlocked(p)

C21_UnlockedClosed ==
    \A p \in PlayerNames : AttemptsClosed(p) /\ ScoreClosed(p) /\ WinsClosed(p)

\* The two implications between rules of one evaluation, alone.
SameRoundClosed == \A p \in PlayerNames : AttemptsClosed(p) /\ ScoreClosed(p)

\* A win was counted, and the player's first-win achievement is missing.
FirstWinMissed ==
    \E p \in PlayerNames :
        StatsOf(p).games_won >= 1 /\ "First Blood" \notin Unlocked(p)


(***************************************************************************)
(* C22. Every operation issued for player p (start, startRound, guess,     *)
(* endSession) leaves the session, round, PlayerStats and achievements of  *)
(* every other player q unchanged.                                         *)
(***************************************************************************)
\* The entry of key k is the same in dict d and in dict e: absent from both,
\* or present in both with the same value.
SameEntry(d, e, k) ==
    /\ k \in DOMAIN d <=> k \in DOMAIN e
    /\ k \in DOMAIN d => d[k] = e[k]

\* This step is one of the four operations, issued for player_name.
OperationStep(player_name) ==
    /\ req'.op \in {"start_game", "start_round", "make_guess", "end_session"}
    /\ req'.player = player_name
    /\ now' = now

\* The session of q, its round included, the stats of q and the achievements
\* of q are the same after the step as before it.
Untouched(q) ==
    /\ SameEntry(sessions, sessions', q)
    /\ SameEntry(stats, stats', q)
    /\ SameEntry(achievements, achievements', q)

C22_OtherPlayersUntouched ==
    [][\A p \in PlayerNames :
          OperationStep(p) => \A q \in PlayerNames \ {p} : Untouched(q)]_vars

\* alice has just won a round while bob holds a session with a resolved
\* round, stats of his own win and the achievements it unlocked.
C22_Witness ==
    /\ req.op = "make_guess" /\ req.player = "alice"
    /\ resp.result = "correct"
    /\ StatsOf("alice").games_won = 1
    /\ "bob" \in DOMAIN sessions
    /\ sessions["bob"].active_round # None
    /\ sessions["bob"].round_scores # <<>>
    /\ StatsOf("bob").games_won = 1
    /\ "bob" \in DOMAIN achievements
    /\ achievements["bob"] # <<>>

====
